---------------------------- MODULE Spec2Model ----------------------------
(***************************************************************************)
(* The search core of the Sudoku program (class SudokuLogic): the two      *)
(* solvers solve_bruteforce (Strategy A) and solve_backtracking_propagation*)
(* (Strategy B), the propagator propagate_singles, and the pure helpers    *)
(* they call.                                                              *)
(*                                                                         *)
(* Python lists are objects: a board is a list of nine row objects.  The   *)
(* model keeps the row objects in a heap and a board is the nine           *)
(* references to its rows, so that copying and aliasing are visible.       *)
(* Recursion is an explicit stack of frames, one per activation of bt()    *)
(* that has reached its for-loop.                                          *)
(***************************************************************************)
EXTENDS Integers, Sequences, FiniteSets, TLC

VARIABLES
    heap,     \* row reference -> row object (a function 0..8 -> 0..9)
    G0,       \* the values of the caller's grid when the call was made
    algo,     \* per call: "A" solve_bruteforce, "B" solve_backtracking_propagation,
              \*           "P" propagate_singles called twice in a row,
              \*           "V" is_valid_move, "K" candidates, "F" is_complete_and_valid
    pc,       \* per call: position in the code
    board,    \* per call: the local variable `board` (nine row references)
    moves,    \* per call: the trace list `moves`
    stack,    \* per call: the frames of bt(): [r, c, cand, v]
    prop,     \* per call: the locals of propagate_singles: [pos, progress, changed, ret]
    retval,   \* per call: the value the last bt() or propagate_singles returned
    first,    \* per call: what the first of two propagate_singles calls left ("P")
    result,   \* per call: what the solver returned (row references, or None)
    steps     \* per call: the number of steps taken so far, counted while two
              \*           calls run side by side (to compare them step by step)

vars == <<heap, G0, algo, pc, board, moves, stack, prop, retval, first, result, steps>>

N == 9
MaxBlank == 4

\* Every completion is enumerated for the grids with at most MaxEnum empty cells.
MaxEnum == 6

Idx    == 0 .. (N - 1)
Digits == 1 .. N
None   == << >>

IsNone(x) == Len(x) = 0

(***************************************************************************)
(* Grids as values: g[r][c], r and c in 0..8.                              *)
(***************************************************************************)
FromRows(t) == [r \in Idx |-> [c \in Idx |-> t[r + 1][c + 1]]]

\* The grid a list of row references denotes in heap h.
Deref(h, refs) == [r \in Idx |-> h[refs[r]]]

\* The write with the indices swapped: board[c][r] = v.
SetCell_swapped(h, refs, r, c, v) == [h EXCEPT ![refs[c]][r] = v]

\* board[r][c] = v on the row object (in place).
SetCell(h, refs, r, c, v) == [h EXCEPT ![refs[r]][c] = v]

\* References of the caller's row objects and of call i's copies.
CallerRefs == [r \in Idx |-> r]
FreshRefs(i) == [r \in Idx |-> N * i + r]

\* A copy that shares the caller's row objects.
deep_copy_alias(h, refs, i) == [heap |-> h, refs |-> refs]

\* A copy into nine row objects that every call uses, made by the first call.
deep_copy_shared(h, refs, i) ==
    LET new == FreshRefs(1)
        dom == DOMAIN h \cup {new[r] : r \in Idx}
    IN  [heap |-> [x \in dom |-> IF x \in DOMAIN h THEN h[x] ELSE h[refs[x - N]]],
         refs |-> new]

\* [row[:] for row in board]: nine new row objects holding the same values.
deep_copy(h, refs, i) ==
    LET new == FreshRefs(i)
        dom == DOMAIN h \cup {new[r] : r \in Idx}
    IN  [heap |-> [x \in dom |-> IF x \in DOMAIN h THEN h[x] ELSE h[refs[x - N * i]]],
         refs |-> new]

BoxStart(x) == (x \div 3) * 3

\* is_valid_move without the exclusion of the cell itself.
is_valid_move_self(g, r, c, v) ==
    IF v = 0 THEN TRUE
    ELSE IF \E x \in Idx : g[r][x] = v THEN FALSE
    ELSE IF \E x \in Idx : g[x][c] = v THEN FALSE
    ELSE ~ \E i \in BoxStart(r) .. (BoxStart(r) + 2), j \in BoxStart(c) .. (BoxStart(c) + 2) :
               g[i][j] = v

is_valid_move(g, r, c, v) ==
    IF v = 0 THEN TRUE
    ELSE IF \E x \in Idx : x # c /\ g[r][x] = v THEN FALSE
    ELSE IF \E x \in Idx : x # r /\ g[x][c] = v THEN FALSE
    ELSE ~ \E i \in BoxStart(r) .. (BoxStart(r) + 2), j \in BoxStart(c) .. (BoxStart(c) + 2) :
               (i # r \/ j # c) /\ g[i][j] = v

\* The row and the column of the cell at row-major position k.
RowOf(k) == k \div N
ColOf(k) == k % N

\* find_empty scanning columns before rows.
find_empty_colmajor(g) ==
    LET E == {k \in 0 .. (N * N - 1) : g[ColOf(k)][RowOf(k)] = 0}
    IN  IF E = {} THEN None
        ELSE LET k == CHOOSE x \in E : \A y \in E : x <= y IN <<ColOf(k), RowOf(k)>>

\* The first zero cell in row-major order, or None.
find_empty(g) ==
    LET E == {k \in 0 .. (N * N - 1) : g[RowOf(k)][ColOf(k)] = 0}
    IN  IF E = {} THEN None
        ELSE LET k == CHOOSE x \in E : \A y \in E : x <= y IN <<RowOf(k), ColOf(k)>>

\* candidates without the early return for a filled cell.
candidates_nofilled(g, r, c) ==
    LET used == {g[r][x] : x \in Idx} \cup {g[x][c] : x \in Idx}
                \cup {g[i][j] : i \in BoxStart(r) .. (BoxStart(r) + 2),
                                j \in BoxStart(c) .. (BoxStart(c) + 2)}
    IN  {v \in Digits : v \notin (used \ {g[r][c]})}

\* candidates without the digits of the column.
candidates_nocol(g, r, c) ==
    IF g[r][c] # 0 THEN {}
    ELSE LET used == {g[r][x] : x \in Idx}
                     \cup {g[i][j] : i \in BoxStart(r) .. (BoxStart(r) + 2),
                                     j \in BoxStart(c) .. (BoxStart(c) + 2)}
         IN  {v \in Digits : v \notin used}

\* candidates without the digits of the 3x3 box.
candidates_nobox(g, r, c) ==
    IF g[r][c] # 0 THEN {}
    ELSE LET used == {g[r][x] : x \in Idx} \cup {g[x][c] : x \in Idx}
         IN  {v \in Digits : v \notin used}

candidates(g, r, c) ==
    IF g[r][c] # 0 THEN {}
    ELSE LET used == {g[r][x] : x \in Idx} \cup {g[x][c] : x \in Idx}
                     \cup {g[i][j] : i \in BoxStart(r) .. (BoxStart(r) + 2),
                                     j \in BoxStart(c) .. (BoxStart(c) + 2)}
         IN  {v \in Digits : v \notin used}

\* sorted(cells) == [1, ..., 9] for a list of nine cells: the list is a
\* permutation of 1..9, that is, every digit occurs in it exactly once.
IsOneToNine(cells) == \A d \in Digits : Cardinality({k \in DOMAIN cells : cells[k] = d}) = 1

RowCells(g, r) == [c \in Idx |-> g[r][c]]
ColCells(g, c) == [r \in Idx |-> g[r][c]]
BoxCells(g, br, bc) == [k \in Idx |-> g[br + (k \div 3)][bc + (k % 3)]]

\* is_complete_and_valid without the pass over the boxes.
is_complete_and_valid_nobox(g) ==
    /\ \A r \in Idx : IsOneToNine(RowCells(g, r))
    /\ \A c \in Idx : IsOneToNine(ColCells(g, c))

is_complete_and_valid(g) ==
    /\ \A r \in Idx : IsOneToNine(RowCells(g, r))
    /\ \A c \in Idx : IsOneToNine(ColCells(g, c))
    /\ \A br \in {0, 3, 6}, bc \in {0, 3, 6} : IsOneToNine(BoxCells(g, br, bc))


(***************************************************************************)
(* select_mrv_cell.  The scan runs over the cells in row-major order with  *)
(* the locals best and best_cands (here best is None or <<r, c, cand>>).   *)
(* It returns None at once at an empty cell without a candidate (stop),    *)
(* and replaces best only by a cell with strictly fewer candidates.        *)
(***************************************************************************)
ScanStart == [stop |-> FALSE, best |-> None]

\* The scan of row r from column c on, the locals being st.  (st is bound
\* as s in a one-element set: it is then evaluated once, not at every use.)
RECURSIVE mrv_scan_row(_, _, _, _)
mrv_scan_row(g, r, c, st) ==
    CHOOSE res \in
        {IF c = N \/ s.stop THEN s
         ELSE IF g[r][c] # 0 THEN mrv_scan_row(g, r, c + 1, s)
         ELSE LET cand == candidates(g, r, c)
              IN  IF cand = {} THEN [stop |-> TRUE, best |-> None]
                  ELSE IF IsNone(s.best) \/ Cardinality(cand) < Cardinality(s.best[3])
                       THEN mrv_scan_row(g, r, c + 1, [stop |-> FALSE, best |-> <<r, c, cand>>])
                       ELSE mrv_scan_row(g, r, c + 1, s)
         : s \in {st}} : TRUE

\* The scan of the rows from r on.
RECURSIVE mrv_scan(_, _, _)
mrv_scan(g, r, st) ==
    CHOOSE res \in
        {IF r = N \/ s.stop THEN s
         ELSE mrv_scan(g, r + 1, mrv_scan_row(g, r, 0, s))
         : s \in {st}} : TRUE

\* The scan without the comparison of sizes: the first empty cell is kept.
select_mrv_cell_first(g) ==
    LET e == find_empty(g)
    IN  IF IsNone(e) \/ mrv_scan(g, 0, ScanStart).stop THEN None
        ELSE <<e[1], e[2], candidates(g, e[1], e[2])>>

select_mrv_cell(g) == mrv_scan(g, 0, ScanStart).best

(***************************************************************************)
(* Trace entries.  The code formats strings; an entry is modelled by its   *)
(* kind and the three numbers the string shows (coordinates 1-based).      *)
(*   "Try r{r+1}c{c+1} = {v}"                                              *)
(*   "Backtrack r{r+1}c{c+1} (reset from {v} to 0)"                        *)
(*   "Singleton r{r+1}c{c+1} = {val}"                                      *)
(*   "MRV choose r{r+1}c{c+1} try {v}"                                     *)
(***************************************************************************)
Entry(kind, r, c, v) == <<kind, r + 1, c + 1, v>>

Frame(r, c, cand, v) == [r |-> r, c |-> c, cand |-> cand, v |-> v]
Top(s) == s[Len(s)]
Pop(s) == SubSeq(s, 1, Len(s) - 1)
SetTopV(s, v) == [s EXCEPT ![Len(s)].v = v]

Board(i) == Deref(heap, board[i])
CallerGrid == Deref(heap, CallerRefs)

Optional(some, refs) == [some |-> some, refs |-> refs]

\* Call i takes a step.
Tick(i) == steps' = IF Cardinality(DOMAIN pc) > 1 THEN [steps EXCEPT ![i] = @ + 1] ELSE steps

\* Call i exists and is at label l.
At(i, l) == i \in DOMAIN pc /\ pc[i] = l

(***************************************************************************)
(* propagate_singles, one step per commit.  prop[i].pos is the row-major   *)
(* position the scan of the current pass has reached.                      *)
(***************************************************************************)
\* The least member of a non-empty set of numbers (the set is bound as T in a
\* one-element set: it is then evaluated once, not at every use).
Least(S) ==
    CHOOSE m \in {CHOOSE x \in T : \A y \in T : x <= y : T \in {S}} : TRUE

\* The next cell at or after pos that is empty with exactly one candidate;
\* N * N when the pass reaches the end of the grid without finding one.
next_single(g, pos) ==
    Least({k \in pos .. (N * N - 1) :
              /\ g[RowOf(k)][ColOf(k)] = 0
              /\ Cardinality(candidates(g, RowOf(k), ColOf(k))) = 1} \cup {N * N})

PropStart(ret) == [pos |-> 0, progress |-> FALSE, changed |-> FALSE, ret |-> ret]

\* lines 83-89: the scan reaches a forced single and commits it.
propagate_commit(i) ==
    /\ At(i, "prop")
    /\ \E g \in {Board(i)} : \E k \in {next_single(g, prop[i].pos)} :
           /\ k < N * N
           /\ LET r == RowOf(k)
                  c == ColOf(k)
                  cand == candidates(g, r, c)
              IN  \E val \in cand :
                     /\ heap' = SetCell(heap, board[i], r, c, val)
                     /\ moves' = [moves EXCEPT ![i] = Append(@, Entry("Singleton", r, c, val))]
                     /\ prop' = [prop EXCEPT ![i].pos = k + 1, ![i].progress = TRUE]
    /\ Tick(i)
    /\ UNCHANGED <<G0, algo, pc, board, stack, retval, first, result>>

\* A single pass: the pass ended with progress and the function returns True.
propagate_once(i) ==
    /\ At(i, "prop")
    /\ \E g \in {Board(i)} : next_single(g, prop[i].pos) = N * N
    /\ prop[i].progress
    /\ retval' = [retval EXCEPT ![i] = TRUE]
    /\ pc' = [pc EXCEPT ![i] = prop[i].ret]
    /\ Tick(i)
    /\ UNCHANGED <<heap, G0, algo, board, moves, stack, prop, first, result>>

\* lines 90-92: the pass ended with progress: changed = True, scan again.
propagate_again(i) ==
    /\ At(i, "prop")
    /\ \E g \in {Board(i)} : next_single(g, prop[i].pos) = N * N
    /\ prop[i].progress
    /\ prop' = [prop EXCEPT ![i].pos = 0, ![i].progress = FALSE, ![i].changed = TRUE]
    /\ Tick(i)
    /\ UNCHANGED <<heap, G0, algo, pc, board, moves, stack, retval, first, result>>

\* The wrong local returned: return progress.
propagate_return_progress(i) ==
    /\ At(i, "prop")
    /\ \E g \in {Board(i)} : next_single(g, prop[i].pos) = N * N
    /\ ~ prop[i].progress
    /\ retval' = [retval EXCEPT ![i] = prop[i].progress]
    /\ pc' = [pc EXCEPT ![i] = prop[i].ret]
    /\ Tick(i)
    /\ UNCHANGED <<heap, G0, algo, board, moves, stack, prop, first, result>>

\* The loop without its break: a pass without progress starts another pass.
propagate_no_break(i) ==
    /\ At(i, "prop")
    /\ \E g \in {Board(i)} : next_single(g, prop[i].pos) = N * N
    /\ ~ prop[i].progress
    /\ prop' = [prop EXCEPT ![i].pos = 0, ![i].progress = FALSE, ![i].changed = TRUE]
    /\ Tick(i)
    /\ UNCHANGED <<heap, G0, algo, pc, board, moves, stack, retval, first, result>>

\* lines 90-93: the pass ended without progress: return changed.
propagate_return(i) ==
    /\ At(i, "prop")
    /\ \E g \in {Board(i)} : next_single(g, prop[i].pos) = N * N
    /\ ~ prop[i].progress
    /\ retval' = [retval EXCEPT ![i] = prop[i].changed]
    /\ pc' = [pc EXCEPT ![i] = prop[i].ret]
    /\ Tick(i)
    /\ UNCHANGED <<heap, G0, algo, board, moves, stack, prop, first, result>>

(***************************************************************************)
(* propagate_singles called twice in a row on the same grid and trace.     *)
(***************************************************************************)
twice_first(i) ==
    /\ At(i, "call") /\ algo[i] = "P"
    /\ pc' = [pc EXCEPT ![i] = "prop"]
    /\ prop' = [prop EXCEPT ![i] = PropStart("second")]
    /\ Tick(i)
    /\ UNCHANGED <<heap, G0, algo, board, moves, stack, retval, first, result>>

twice_second(i) ==
    /\ At(i, "second")
    /\ first' = [first EXCEPT ![i] = [grid |-> Board(i), moves |-> moves[i], ret |-> retval[i]]]
    /\ pc' = [pc EXCEPT ![i] = "prop"]
    /\ prop' = [prop EXCEPT ![i] = PropStart("end")]
    /\ Tick(i)
    /\ UNCHANGED <<heap, G0, algo, board, moves, stack, retval, result>>

twice_end(i) ==
    /\ At(i, "end")
    /\ pc' = [pc EXCEPT ![i] = "done"]
    /\ Tick(i)
    /\ UNCHANGED <<heap, G0, algo, board, moves, stack, prop, retval, first, result>>

(***************************************************************************)
(* Strategy A: solve_bruteforce and its inner bt().                        *)
(***************************************************************************)
\* line 57: board = deep_copy(board); line 74 then calls bt().
bruteforce_enter(i) ==
    /\ At(i, "call") /\ algo[i] = "A"
    /\ LET cp == deep_copy(heap, board[i], i)
       IN  /\ heap' = cp.heap
           /\ board' = [board EXCEPT ![i] = cp.refs]
    /\ pc' = [pc EXCEPT ![i] = "bt"]
    /\ Tick(i)
    /\ UNCHANGED <<G0, algo, moves, stack, prop, retval, first, result>>

\* lines 60-62: no empty cell, bt() returns True.
bruteforce_full(i) ==
    /\ At(i, "bt") /\ algo[i] = "A"
    /\ IsNone(find_empty(Board(i)))
    /\ retval' = [retval EXCEPT ![i] = TRUE]
    /\ pc' = [pc EXCEPT ![i] = "ret"]
    /\ Tick(i)
    /\ UNCHANGED <<heap, G0, algo, board, moves, stack, prop, first, result>>

\* lines 60-64: r, c = empty; the loop over v starts.
bruteforce_open(i) ==
    /\ At(i, "bt") /\ algo[i] = "A"
    /\ LET empty == find_empty(Board(i))
       IN  /\ ~ IsNone(empty)
           /\ stack' = [stack EXCEPT ![i] = Append(@, Frame(empty[1], empty[2], {}, 0))]
    /\ pc' = [pc EXCEPT ![i] = "loop"]
    /\ Tick(i)
    /\ UNCHANGED <<heap, G0, algo, board, moves, prop, retval, first, result>>

\* The loop over range(1, 9): the digit 9 is never tried.
LegalLeft_short(g, f) == {v \in (f.v + 1) .. (N - 1) : is_valid_move(g, f.r, f.c, v)}

\* The digits of range(1, 10) after the last one tried that pass is_valid_move.
LegalLeft(g, f) == {v \in (f.v + 1) .. N : is_valid_move(g, f.r, f.c, v)}

\* lines 64-68: the loop reaches the next legal digit: "Try", place, recurse.
bruteforce_try(i) ==
    /\ At(i, "loop") /\ algo[i] = "A"
    /\ LET f == Top(stack[i])
           legal == LegalLeft(Board(i), f)
       IN  /\ legal # {}
           /\ LET v == CHOOSE x \in legal : \A y \in legal : x <= y
              IN  /\ moves' = [moves EXCEPT ![i] = Append(@, Entry("Try", f.r, f.c, v))]
                  /\ heap' = SetCell(heap, board[i], f.r, f.c, v)
                  /\ stack' = [stack EXCEPT ![i] = SetTopV(@, v)]
    /\ pc' = [pc EXCEPT ![i] = "bt"]
    /\ Tick(i)
    /\ UNCHANGED <<G0, algo, board, prop, retval, first, result>>

\* lines 64-72: no legal digit is left in the loop: bt() returns False.
bruteforce_exhausted(i) ==
    /\ At(i, "loop") /\ algo[i] = "A"
    /\ LegalLeft(Board(i), Top(stack[i])) = {}
    /\ stack' = [stack EXCEPT ![i] = Pop(@)]
    /\ retval' = [retval EXCEPT ![i] = FALSE]
    /\ pc' = [pc EXCEPT ![i] = "ret"]
    /\ Tick(i)
    /\ UNCHANGED <<heap, G0, algo, board, moves, prop, first, result>>

\* lines 68-69: the recursive bt() returned True: this bt() returns True.
bruteforce_unwind(i) ==
    /\ At(i, "ret") /\ algo[i] = "A"
    /\ stack[i] # << >>
    /\ retval[i]
    /\ stack' = [stack EXCEPT ![i] = Pop(@)]
    /\ Tick(i)
    /\ UNCHANGED <<heap, G0, algo, pc, board, moves, prop, retval, first, result>>

\* lines 68-71: the recursive bt() returned False: "Backtrack", reset the cell.
bruteforce_backtrack(i) ==
    /\ At(i, "ret") /\ algo[i] = "A"
    /\ stack[i] # << >>
    /\ ~ retval[i]
    /\ LET f == Top(stack[i])
       IN  /\ moves' = [moves EXCEPT ![i] = Append(@, Entry("Backtrack", f.r, f.c, f.v))]
           /\ heap' = SetCell(heap, board[i], f.r, f.c, 0)
    /\ pc' = [pc EXCEPT ![i] = "loop"]
    /\ Tick(i)
    /\ UNCHANGED <<G0, algo, board, stack, prop, retval, first, result>>

\* The condition inverted: return None if bt() else board.
bruteforce_return_inverted(i) ==
    /\ At(i, "ret") /\ algo[i] = "A"
    /\ stack[i] = << >>
    /\ result' = [result EXCEPT ![i] = Optional(~ retval[i], board[i])]
    /\ pc' = [pc EXCEPT ![i] = "done"]
    /\ Tick(i)
    /\ UNCHANGED <<heap, G0, algo, board, moves, stack, prop, retval, first>>

\* line 74: return board if bt() else None.
bruteforce_return(i) ==
    /\ At(i, "ret") /\ algo[i] = "A"
    /\ stack[i] = << >>
    /\ result' = [result EXCEPT ![i] = Optional(retval[i], board[i])]
    /\ pc' = [pc EXCEPT ![i] = "done"]
    /\ Tick(i)
    /\ UNCHANGED <<heap, G0, algo, board, moves, stack, prop, retval, first>>

(***************************************************************************)
(* Strategy B: solve_backtracking_propagation and its inner bt().          *)
(***************************************************************************)
\* The call without line 98: bt() is entered on the copy as it is.
propagation_enter_unpropagated(i) ==
    /\ At(i, "call") /\ algo[i] = "B"
    /\ LET cp == deep_copy(heap, board[i], i)
       IN  /\ heap' = cp.heap
           /\ board' = [board EXCEPT ![i] = cp.refs]
    /\ pc' = [pc EXCEPT ![i] = "bt"]
    /\ Tick(i)
    /\ UNCHANGED <<G0, algo, moves, stack, prop, retval, first, result>>

\* lines 97-98: board = deep_copy(board); propagate_singles(board, moves).
propagation_enter(i) ==
    /\ At(i, "call") /\ algo[i] = "B"
    /\ LET cp == deep_copy(heap, board[i], i)
       IN  /\ heap' = cp.heap
           /\ board' = [board EXCEPT ![i] = cp.refs]
    /\ pc' = [pc EXCEPT ![i] = "prop"]
    /\ prop' = [prop EXCEPT ![i] = PropStart("bt")]
    /\ Tick(i)
    /\ UNCHANGED <<G0, algo, moves, stack, retval, first, result>>

\* The two cases of mrv is None not told apart: return True.
propagation_leaf_solved(i) ==
    /\ At(i, "bt") /\ algo[i] = "B"
    /\ \E g \in {Board(i)} : IsNone(select_mrv_cell(g))
    /\ retval' = [retval EXCEPT ![i] = TRUE]
    /\ pc' = [pc EXCEPT ![i] = "ret"]
    /\ Tick(i)
    /\ UNCHANGED <<heap, G0, algo, board, moves, stack, prop, first, result>>

\* lines 117-119: mrv is None: return find_empty(board) is None.
propagation_leaf(i) ==
    /\ At(i, "bt") /\ algo[i] = "B"
    /\ \E g \in {Board(i)} :
           /\ IsNone(select_mrv_cell(g))
           /\ retval' = [retval EXCEPT ![i] = IsNone(find_empty(g))]
    /\ pc' = [pc EXCEPT ![i] = "ret"]
    /\ Tick(i)
    /\ UNCHANGED <<heap, G0, algo, board, moves, stack, prop, first, result>>

\* lines 117-121: r, c, cand = mrv; the loop over sorted(cand) starts.
propagation_open(i) ==
    /\ At(i, "bt") /\ algo[i] = "B"
    /\ \E g \in {Board(i)} : \E mrv \in {select_mrv_cell(g)} :
           /\ ~ IsNone(mrv)
           /\ stack' = [stack EXCEPT ![i] = Append(@, Frame(mrv[1], mrv[2], mrv[3], 0))]
    /\ pc' = [pc EXCEPT ![i] = "loop"]
    /\ Tick(i)
    /\ UNCHANGED <<heap, G0, algo, board, moves, prop, retval, first, result>>

\* The members of sorted(cand) after the last one tried.
CandLeft(f) == {v \in f.cand : v > f.v}

\* The loop over cand in the order the set yields its members (no sorted()).
propagation_choose_unsorted(i) ==
    /\ At(i, "loop") /\ algo[i] = "B"
    /\ LET f == Top(stack[i])
       IN  \E v \in f.cand :
              /\ v # f.v
              /\ is_valid_move(Board(i), f.r, f.c, v)
              /\ moves' = [moves EXCEPT ![i] = Append(@, Entry("MRV choose", f.r, f.c, v))]
              /\ heap' = SetCell(heap, board[i], f.r, f.c, v)
              /\ stack' = [stack EXCEPT ![i] = SetTopV(@, v)]
    /\ pc' = [pc EXCEPT ![i] = "prop"]
    /\ prop' = [prop EXCEPT ![i] = PropStart("bt")]
    /\ Tick(i)
    /\ UNCHANGED <<G0, algo, board, retval, first, result>>

\* The loop without the is_valid_move test: every candidate is placed.
propagation_choose_unchecked(i) ==
    /\ At(i, "loop") /\ algo[i] = "B"
    /\ LET f == Top(stack[i])
           left == CandLeft(f)
       IN  /\ left # {}
           /\ LET v == CHOOSE x \in left : \A y \in left : x <= y
              IN  /\ moves' = [moves EXCEPT ![i] = Append(@, Entry("MRV choose", f.r, f.c, v))]
                  /\ heap' = SetCell(heap, board[i], f.r, f.c, v)
                  /\ stack' = [stack EXCEPT ![i] = SetTopV(@, v)]
    /\ pc' = [pc EXCEPT ![i] = "prop"]
    /\ prop' = [prop EXCEPT ![i] = PropStart("bt")]
    /\ Tick(i)
    /\ UNCHANGED <<G0, algo, board, retval, first, result>>

\* lines 121-125: the next candidate: "MRV choose"; it passes is_valid_move,
\* is placed and propagate_singles runs (bt() recurses when it returns).
propagation_choose(i) ==
    /\ At(i, "loop") /\ algo[i] = "B"
    /\ LET f == Top(stack[i])
           left == CandLeft(f)
       IN  /\ left # {}
           /\ LET v == CHOOSE x \in left : \A y \in left : x <= y
              IN  /\ is_valid_move(Board(i), f.r, f.c, v)
                  /\ moves' = [moves EXCEPT ![i] = Append(@, Entry("MRV choose", f.r, f.c, v))]
                  /\ heap' = SetCell(heap, board[i], f.r, f.c, v)
                  /\ stack' = [stack EXCEPT ![i] = SetTopV(@, v)]
    /\ pc' = [pc EXCEPT ![i] = "prop"]
    /\ prop' = [prop EXCEPT ![i] = PropStart("bt")]
    /\ Tick(i)
    /\ UNCHANGED <<G0, algo, board, retval, first, result>>

\* lines 121-123: the next candidate: "MRV choose"; it fails is_valid_move
\* and the loop goes on to the candidate after it.
propagation_skip(i) ==
    /\ At(i, "loop") /\ algo[i] = "B"
    /\ LET f == Top(stack[i])
           left == CandLeft(f)
       IN  /\ left # {}
           /\ LET v == CHOOSE x \in left : \A y \in left : x <= y
              IN  /\ ~ is_valid_move(Board(i), f.r, f.c, v)
                  /\ moves' = [moves EXCEPT ![i] = Append(@, Entry("MRV choose", f.r, f.c, v))]
                  /\ stack' = [stack EXCEPT ![i] = SetTopV(@, v)]
    /\ Tick(i)
    /\ UNCHANGED <<heap, G0, algo, pc, board, prop, retval, first, result>>

\* lines 121-130: sorted(cand) is exhausted: bt() returns False.
propagation_exhausted(i) ==
    /\ At(i, "loop") /\ algo[i] = "B"
    /\ CandLeft(Top(stack[i])) = {}
    /\ stack' = [stack EXCEPT ![i] = Pop(@)]
    /\ retval' = [retval EXCEPT ![i] = FALSE]
    /\ pc' = [pc EXCEPT ![i] = "ret"]
    /\ Tick(i)
    /\ UNCHANGED <<heap, G0, algo, board, moves, prop, first, result>>

\* lines 126-127: the recursive bt() returned True: this bt() returns True.
propagation_unwind(i) ==
    /\ At(i, "ret") /\ algo[i] = "B"
    /\ stack[i] # << >>
    /\ retval[i]
    /\ stack' = [stack EXCEPT ![i] = Pop(@)]
    /\ Tick(i)
    /\ UNCHANGED <<heap, G0, algo, pc, board, moves, prop, retval, first, result>>

\* lines 126-129: the recursive bt() returned False: "Backtrack", reset the cell.
propagation_backtrack(i) ==
    /\ At(i, "ret") /\ algo[i] = "B"
    /\ stack[i] # << >>
    /\ ~ retval[i]
    /\ LET f == Top(stack[i])
       IN  /\ moves' = [moves EXCEPT ![i] = Append(@, Entry("Backtrack", f.r, f.c, f.v))]
           /\ heap' = SetCell(heap, board[i], f.r, f.c, 0)
    /\ pc' = [pc EXCEPT ![i] = "loop"]
    /\ Tick(i)
    /\ UNCHANGED <<G0, algo, board, stack, prop, retval, first, result>>

\* The condition inverted: return None if bt() else board.
propagation_return_inverted(i) ==
    /\ At(i, "ret") /\ algo[i] = "B"
    /\ stack[i] = << >>
    /\ result' = [result EXCEPT ![i] = Optional(~ retval[i], board[i])]
    /\ pc' = [pc EXCEPT ![i] = "done"]
    /\ Tick(i)
    /\ UNCHANGED <<heap, G0, algo, board, moves, stack, prop, retval, first>>

\* line 132: return board if bt() else None.
propagation_return(i) ==
    /\ At(i, "ret") /\ algo[i] = "B"
    /\ stack[i] = << >>
    /\ result' = [result EXCEPT ![i] = Optional(retval[i], board[i])]
    /\ pc' = [pc EXCEPT ![i] = "done"]
    /\ Tick(i)
    /\ UNCHANGED <<heap, G0, algo, board, moves, stack, prop, retval, first>>

(***************************************************************************)
(* The pure helpers called on their own: one call of is_valid_move, of     *)
(* candidates or of is_complete_and_valid on a grid.  The arguments        *)
(* (r, c, v) and the set candidates returns are kept in the one frame of   *)
(* the call, the boolean returned in retval.                               *)
(***************************************************************************)
\* is_valid_move(board, r, c, v) for a cell and a value 0..9.
call_is_valid_move(i) ==
    /\ At(i, "call") /\ algo[i] = "V"
    /\ \E r \in Idx, c \in Idx, v \in 0 .. N :
          /\ stack' = [stack EXCEPT ![i] = << Frame(r, c, {}, v) >>]
          /\ retval' = [retval EXCEPT ![i] = is_valid_move(Board(i), r, c, v)]
    /\ pc' = [pc EXCEPT ![i] = "done"]
    /\ Tick(i)
    /\ UNCHANGED <<heap, G0, algo, board, moves, prop, first, result>>

\* candidates(board, r, c) for a cell.
call_candidates(i) ==
    /\ At(i, "call") /\ algo[i] = "K"
    /\ \E r \in Idx, c \in Idx :
          stack' = [stack EXCEPT ![i] = << Frame(r, c, candidates(Board(i), r, c), 0) >>]
    /\ pc' = [pc EXCEPT ![i] = "done"]
    /\ Tick(i)
    /\ UNCHANGED <<heap, G0, algo, board, moves, prop, retval, first, result>>

\* is_complete_and_valid(board).
call_is_complete_and_valid(i) ==
    /\ At(i, "call") /\ algo[i] = "F"
    /\ retval' = [retval EXCEPT ![i] = is_complete_and_valid(Board(i))]
    /\ pc' = [pc EXCEPT ![i] = "done"]
    /\ Tick(i)
    /\ UNCHANGED <<heap, G0, algo, board, moves, stack, prop, first, result>>

(***************************************************************************)
(* The grids the solvers are called on.  The shell passes what the grid of *)
(* entries holds (_get_board): a loaded puzzle, the initial all-zero grid, *)
(* or any of them with the user's digits typed in.                         *)
(***************************************************************************)
EASY_PUZZLES == <<
    << <<5,3,0,0,7,0,0,0,0>>,
       <<6,0,0,1,9,5,0,0,0>>,
       <<0,9,8,0,0,0,0,6,0>>,
       <<8,0,0,0,6,0,0,0,3>>,
       <<4,0,0,8,0,3,0,0,1>>,
       <<7,0,0,0,2,0,0,0,6>>,
       <<0,6,0,0,0,0,2,8,0>>,
       <<0,0,0,4,1,9,0,0,5>>,
       <<0,0,0,0,8,0,0,7,9>> >>,
    << <<1,0,0,4,8,9,0,0,6>>,
       <<7,3,0,0,0,0,0,4,0>>,
       <<0,0,0,0,0,1,2,9,5>>,
       <<0,0,7,1,2,0,6,0,0>>,
       <<5,0,0,7,0,3,0,0,8>>,
       <<0,0,6,0,9,5,7,0,0>>,
       <<9,1,4,6,0,0,0,0,0>>,
       <<0,2,0,0,0,0,0,3,7>>,
       <<8,0,0,9,3,4,0,0,0>> >>,
    << <<0,0,0,2,6,0,7,0,1>>,
       <<6,8,0,0,7,0,0,9,0>>,
       <<1,9,0,0,0,4,5,0,0>>,
       <<8,2,0,1,0,0,0,4,0>>,
       <<0,0,4,6,0,2,9,0,0>>,
       <<0,5,0,0,0,3,0,2,8>>,
       <<0,0,9,3,0,0,0,7,4>>,
       <<0,4,0,0,5,0,0,3,6>>,
       <<7,0,3,0,1,8,0,0,0>> >>
>>

MEDIUM_PUZZLES == <<
    << <<0,2,0,6,0,8,0,0,0>>,
       <<5,8,0,0,0,9,7,0,0>>,
       <<0,0,0,0,4,0,0,0,0>>,
       <<3,7,0,0,0,0,5,0,0>>,
       <<6,0,0,0,0,0,0,0,4>>,
       <<0,0,8,0,0,0,0,1,3>>,
       <<0,0,0,0,2,0,0,0,0>>,
       <<0,0,9,8,0,0,0,3,0>>,
       <<0,0,0,0,0,6,0,0,5>> >>,
    << <<0,0,0,0,0,0,2,0,0>>,
       <<0,8,0,0,0,7,0,9,0>>,
       <<6,0,2,0,0,0,5,0,0>>,
       <<0,7,0,0,6,0,0,0,0>>,
       <<0,0,0,9,0,1,0,0,0>>,
       <<0,0,0,0,2,0,0,1,0>>,
       <<0,0,9,0,0,0,7,0,6>>,
       <<0,2,0,7,0,0,0,8,0>>,
       <<0,0,6,0,0,0,0,0,0>> >>,
    << <<0,0,0,0,0,0,0,0,0>>,
       <<0,4,0,0,0,0,0,0,2>>,
       <<0,0,0,0,0,7,0,0,0>>,
       <<0,0,0,0,6,0,0,0,0>>,
       <<0,0,0,7,0,0,0,0,0>>,
       <<0,0,0,0,0,0,0,0,0>>,
       <<0,0,0,9,0,0,0,0,0>>,
       <<0,0,0,0,0,0,0,8,0>>,
       <<0,0,0,0,0,0,1,0,0>> >>
>>

HARD_PUZZLES == <<
    << <<0,0,0,0,0,0,0,1,2>>,
       <<0,0,0,0,0,0,0,0,0>>,
       <<0,0,1,0,0,0,0,0,0>>,
       <<0,0,0,0,0,6,0,0,0>>,
       <<0,0,0,0,0,0,3,0,0>>,
       <<0,0,0,0,0,0,0,0,0>>,
       <<0,0,0,0,9,0,0,0,0>>,
       <<0,0,0,4,0,0,0,0,0>>,
       <<0,0,0,0,0,0,0,0,0>> >>,
    << <<0,0,0,0,0,0,0,0,0>>,
       <<0,0,0,0,0,3,0,8,5>>,
       <<0,0,1,0,2,0,0,0,0>>,
       <<0,0,0,5,0,7,0,0,0>>,
       <<0,0,4,0,0,0,1,0,0>>,
       <<0,9,0,0,0,0,0,0,0>>,
       <<5,0,0,0,0,0,0,7,3>>,
       <<0,0,2,0,1,0,0,0,0>>,
       <<0,0,0,0,0,0,0,0,0>> >>,
    << <<8,0,0,0,0,0,0,0,0>>,
       <<0,0,3,6,0,0,0,0,0>>,
       <<0,7,0,0,9,0,2,0,0>>,
       <<0,5,0,0,0,7,0,0,0>>,
       <<0,0,0,0,4,5,7,0,0>>,
       <<0,0,0,1,0,0,0,3,0>>,
       <<0,0,1,0,0,0,0,6,8>>,
       <<0,0,8,5,0,0,0,1,0>>,
       <<0,9,0,0,0,0,4,0,0>> >>
>>

\* current_puzzle before a puzzle is loaded: [[0]*9 for _ in range(9)].
EmptyGrid == [r \in Idx |-> [c \in Idx |-> 0]]

\* A grid the user has filled in completely and correctly (the completion of
\* EASY_PUZZLES[3]).
Filled == FromRows(
    << <<4,3,5,2,6,9,7,8,1>>,
    <<6,8,2,5,7,1,4,9,3>>,
    <<1,9,7,8,3,4,5,6,2>>,
    <<8,2,6,1,9,5,3,4,7>>,
    <<3,7,4,6,8,2,9,1,5>>,
    <<9,5,1,7,4,3,6,2,8>>,
    <<5,1,9,3,2,6,8,7,4>>,
    <<2,4,8,9,5,7,1,3,6>>,
    <<7,6,3,4,1,8,2,5,9>> >>)

\* The cells the user clears, in this order.  The first four hold 5, 2 / 2, 5
\* in two rows of Filled: cleared, they leave a grid with two completions.
ClearOrder ==
    << <<0, 2>>, <<0, 3>>, <<1, 2>>, <<1, 3>>, <<0, 0>>, <<0, 1>>, <<1, 0>>, <<1, 1>>, <<2, 0>> >>
ClearedCell(j) == ClearOrder[j]

\* g with the first k cells of ClearedCell cleared.
Cleared(g, k) ==
    [r \in Idx |-> [c \in Idx |->
        IF \E j \in 1 .. k : ClearedCell(j) = <<r, c>> THEN 0 ELSE g[r][c]]]

\* g with digit d typed into cell e (0 clears it).
Typed(g, e, d) == [g EXCEPT ![e[1]][e[2]] = d]

TypedCells == {<<0, 2>>, <<4, 4>>}

\* HARD_PUZZLES[1] with fourteen correct digits typed in by the user.
HardPartlyFilled == FromRows(
    << <<0,0,5,6,0,0,0,1,2>>,
       <<0,0,0,1,0,9,0,0,0>>,
       <<0,0,1,2,4,0,0,0,0>>,
       <<0,0,0,0,0,6,0,0,0>>,
       <<0,0,0,0,0,7,3,0,1>>,
       <<0,0,0,3,0,4,0,6,0>>,
       <<0,0,0,0,9,0,0,0,0>>,
       <<0,0,0,4,5,2,0,0,0>>,
       <<9,0,2,0,0,1,0,0,0>> >>)

Puzzles ==
    {FromRows(EASY_PUZZLES[1]), FromRows(EASY_PUZZLES[2]), FromRows(EASY_PUZZLES[3]),
     FromRows(MEDIUM_PUZZLES[1]), FromRows(HARD_PUZZLES[1]), EmptyGrid,
     HardPartlyFilled}

Inputs ==
    Puzzles \cup
    {Typed(Cleared(Filled, k), e, d) : k \in 0 .. MaxBlank, e \in TypedCells, d \in 0 .. N}

\* A pasted solution whose rows and columns are permutations of 1..9 and
\* whose boxes are not (_parse_solution takes any 81 digits).
ShiftedRows == [r \in Idx |-> [c \in Idx |-> ((r + c) % N) + 1]]

\* The grids the helpers are called on.
HelperInputs == Inputs \cup {ShiftedRows}

\* The grids two calls are run on side by side.
PairInputs == {HardPartlyFilled} \cup {Cleared(Filled, k) : k \in 0 .. MaxBlank}

Calls == {1}
PairCalls == {1, 2}

\* The calls C, each of a kind in kinds, are about to be made on a grid of I.
InitCalls(C, kinds, I) ==
    /\ \E g \in I :
          /\ heap = [x \in Idx |-> g[x]]
          /\ G0 = g
    /\ algo \in [C -> kinds]
    /\ pc = [i \in C |-> "call"]
    /\ board = [i \in C |-> CallerRefs]
    /\ moves = [i \in C |-> << >>]
    /\ stack = [i \in C |-> << >>]
    /\ prop = [i \in C |-> PropStart("bt")]
    /\ retval = [i \in C |-> FALSE]
    /\ first = [i \in C |-> [grid |-> G0, moves |-> << >>, ret |-> FALSE]]
    /\ result = [i \in C |-> Optional(FALSE, CallerRefs)]
    /\ steps = [i \in C |-> 0]

SolverStep(i) ==
    \/ bruteforce_enter(i)
    \/ bruteforce_full(i)
    \/ bruteforce_open(i)
    \/ bruteforce_try(i)
    \/ bruteforce_exhausted(i)
    \/ bruteforce_unwind(i)
    \/ bruteforce_backtrack(i)
    \/ bruteforce_return(i)
    \/ propagation_enter(i)
    \/ propagation_leaf(i)
    \/ propagation_open(i)
    \/ propagation_choose(i)
    \/ propagation_skip(i)
    \/ propagation_exhausted(i)
    \/ propagation_unwind(i)
    \/ propagation_backtrack(i)
    \/ propagation_return(i)
    \/ propagate_commit(i)
    \/ propagate_again(i)
    \/ propagate_return(i)

TwiceStep(i) ==
    \/ twice_first(i)
    \/ twice_second(i)
    \/ twice_end(i)
    \/ propagate_commit(i)
    \/ propagate_again(i)
    \/ propagate_return(i)

HelperStep(i) ==
    \/ call_is_valid_move(i)
    \/ call_candidates(i)
    \/ call_is_complete_and_valid(i)

\* One call of a solver.
Init == InitCalls(Calls, {"A", "B"}, Inputs)
Next == \E i \in PairCalls : SolverStep(i)
Spec == Init /\ [][Next]_vars

\* Two calls of the same solver on the same grid, their steps interleaved.
InitPair == InitCalls(PairCalls, {"A", "B"}, PairInputs) /\ algo[1] = algo[2]
SpecPair == InitPair /\ [][Next]_vars

\* Strategy A and Strategy B called on the same grid, their steps interleaved.
InitConcurrent == InitCalls(PairCalls, {"A", "B"}, PairInputs) /\ algo[1] # algo[2]
SpecConcurrent == InitConcurrent /\ [][Next]_vars

\* propagate_singles called twice in a row on a grid.
InitTwice == InitCalls(Calls, {"P"}, Inputs)
NextTwice == \E i \in PairCalls : TwiceStep(i)
SpecTwice == InitTwice /\ [][NextTwice]_vars

\* One call of a pure helper on a grid.
InitHelpers == InitCalls(Calls, {"V", "K", "F"}, HelperInputs)
NextHelpers == \E i \in PairCalls : HelperStep(i)
SpecHelpers == InitHelpers /\ [][NextHelpers]_vars

\* One call of a solver, or propagate_singles twice, run to its end: the
\* interpreter keeps executing a call that has a next step.
AnyStep(i) == SolverStep(i) \/ twice_first(i) \/ twice_second(i) \/ twice_end(i)
InitRun == InitCalls(Calls, {"A", "B", "P"}, Inputs)
NextRun == \E i \in PairCalls : AnyStep(i)
SpecRun == InitRun /\ [][NextRun]_vars /\ WF_vars(NextRun)

(***************************************************************************)
(* What the claims speak of.                                               *)
(***************************************************************************)
Done(i) == pc[i] = "done"
Solver(i) == algo[i] \in {"A", "B"}
Started(i) == pc[i] # "call"
Returned(i) == Done(i) /\ result[i].some
ResultGrid(i) == Deref(heap, result[i].refs)

Cells == Idx \X Idx
IsFull(g) == \A r \in Idx, c \in Idx : g[r][c] # 0

\* Two different cells share a row, a column or a box.
SameUnit(a, b) ==
    /\ a # b
    /\ \/ a[1] = b[1]
       \/ a[2] = b[2]
       \/ BoxStart(a[1]) = BoxStart(b[1]) /\ BoxStart(a[2]) = BoxStart(b[2])

\* Two cells of one unit hold the same digit: no completion can exist.
GivensClash(g) ==
    \E a \in Cells, b \in Cells :
        SameUnit(a, b) /\ g[a[1]][a[2]] # 0 /\ g[a[1]][a[2]] = g[b[1]][b[2]]

\* s is a finished Sudoku: every row, column and box holds every digit.
IsSolution(s) ==
    /\ \A r \in Idx : {s[r][c] : c \in Idx} = Digits
    /\ \A c \in Idx : {s[r][c] : r \in Idx} = Digits
    /\ \A br \in {0, 3, 6}, bc \in {0, 3, 6} :
          {s[br + i][bc + j] : i \in 0 .. 2, j \in 0 .. 2} = Digits

\* s leaves every non-zero cell of g as it is.
Agrees(g, s) == \A r \in Idx, c \in Idx : g[r][c] # 0 => s[r][c] = g[r][c]

\* Finished grids: among them is a completion of every grid of Inputs that
\* has one.
Completions ==
    {Filled,
     FromRows(<< <<5,3,4,6,7,8,9,1,2>>,
                 <<6,7,2,1,9,5,3,4,8>>,
                 <<1,9,8,3,4,2,5,6,7>>,
                 <<8,5,9,7,6,1,4,2,3>>,
                 <<4,2,6,8,5,3,7,9,1>>,
                 <<7,1,3,9,2,4,8,5,6>>,
                 <<9,6,1,5,3,7,2,8,4>>,
                 <<2,8,7,4,1,9,6,3,5>>,
                 <<3,4,5,2,8,6,1,7,9>> >>),
     \* Filled with the 5s and 2s of the first four cleared cells exchanged.
     Typed(Typed(Typed(Typed(Filled, <<0, 2>>, 2), <<0, 3>>, 5), <<1, 2>>, 5), <<1, 3>>, 2),
     FromRows(<< <<1,2,3,6,7,8,4,5,9>>,
                 <<5,8,4,1,3,9,7,2,6>>,
                 <<7,9,6,5,4,2,3,8,1>>,
                 <<3,7,1,2,9,4,5,6,8>>,
                 <<6,5,2,3,8,1,9,7,4>>,
                 <<9,4,8,7,6,5,2,1,3>>,
                 <<8,1,5,4,2,3,6,9,7>>,
                 <<4,6,9,8,5,7,1,3,2>>,
                 <<2,3,7,9,1,6,8,4,5>> >>),
     FromRows(<< <<3,4,5,6,7,8,9,1,2>>,
                 <<2,6,7,1,3,9,4,5,8>>,
                 <<8,9,1,2,4,5,6,3,7>>,
                 <<1,2,3,5,8,6,7,4,9>>,
                 <<4,5,6,9,2,7,3,8,1>>,
                 <<7,8,9,3,1,4,2,6,5>>,
                 <<5,1,4,7,9,3,8,2,6>>,
                 <<6,7,8,4,5,2,1,9,3>>,
                 <<9,3,2,8,6,1,5,7,4>> >>)}

\* g has a legal completion (shown by one of Completions).
HasCompletion(g) == \E s \in Completions : IsSolution(s) /\ Agrees(g, s)

HasEntry(i, kind) == \E k \in 1 .. Len(moves[i]) : moves[i][k][1] = kind

(***************************************************************************)
(* C1.  Whenever Strategy A or B returns a grid, is_complete_and_valid of  *)
(* the returned grid is true, for every input grid with cells in 0..9.     *)
(* The code returns a grid that is not valid when the givens clash.        *)
(***************************************************************************)
C1_ReturnedGridIsValid ==
    \A i \in DOMAIN pc :
        (Solver(i) /\ Returned(i)) => is_complete_and_valid(ResultGrid(i))

(***************************************************************************)
(* C2.  For every input grid that has a legal completion, Strategy B       *)
(* returns a solved grid and never None.  The code returns None on         *)
(* MEDIUM_PUZZLES[1].                                                      *)
(***************************************************************************)
C2_PropagationFindsCompletion ==
    \A i \in DOMAIN pc :
        (algo[i] = "B" /\ Done(i) /\ HasCompletion(G0)) => result[i].some

(***************************************************************************)
(* C3.  For every input grid that has no legal completion, givens that     *)
(* clash and filled invalid grids included, both strategies return None.   *)
(* The code returns a grid for some grids whose givens clash.              *)
(***************************************************************************)
C3_NoCompletionReturnsNone ==
    \A i \in DOMAIN pc :
        (Solver(i) /\ Done(i) /\ GivensClash(G0)) => ~ result[i].some

(***************************************************************************)
(* C4.  For every input grid that has a legal completion, Strategy A       *)
(* returns a solved grid and never None.                                   *)
(***************************************************************************)
C4_BruteforceFindsCompletion ==
    \A i \in DOMAIN pc :
        (algo[i] = "A" /\ Done(i) /\ HasCompletion(G0)) =>
            (result[i].some /\ IsSolution(ResultGrid(i)))

\* Strategy A has returned a grid for a grid with a completion after
\* backing out of at least one branch.
C4_Witness ==
    \E i \in DOMAIN pc :
        /\ algo[i] = "A" /\ Done(i) /\ HasCompletion(G0)
        /\ result[i].some /\ HasEntry(i, "Backtrack")

(***************************************************************************)
(* C5.  Every cell that is non-zero in the input grid holds the same value *)
(* in the working grid of Strategy A and of Strategy B at every            *)
(* intermediate state, and in the grid returned.                           *)
(***************************************************************************)
C5_GivensKept ==
    \A i \in DOMAIN pc :
        Solver(i) =>
            /\ Agrees(G0, Board(i))
            /\ Returned(i) => Agrees(G0, ResultGrid(i))

\* A solver has returned a grid after placing, propagating and backing out,
\* for an input with givens.
C5_Witness ==
    \E i \in DOMAIN pc :
        /\ Solver(i) /\ Returned(i)
        /\ HasEntry(i, "Backtrack")
        /\ \E r \in Idx, c \in Idx : G0[r][c] # 0
        /\ ResultGrid(i) # G0

(***************************************************************************)
(* C6.  Neither solver mutates the caller's grid: at every step of the     *)
(* call and after it returns, the grid object passed in holds the values   *)
(* it held on entry; the working grid is made of other row objects.        *)
(***************************************************************************)
C6_CallerGridUntouched ==
    (\A i \in DOMAIN pc : Solver(i)) =>
        /\ CallerGrid = G0
        /\ \A i \in DOMAIN pc :
              Started(i) => \A r \in Idx, q \in Idx : board[i][r] # CallerRefs[q]

\* A solver has written to its working grid, which now differs from the
\* caller's grid.
C6_Witness ==
    \E i \in DOMAIN pc :
        /\ Solver(i) /\ Done(i)
        /\ HasEntry(i, "Backtrack")
        /\ Board(i) # G0

(***************************************************************************)
(* C7.  Determinism: two runs of the same strategy on equal input grids    *)
(* with empty traces step through identical working grids and end with     *)
(* identical results and identical traces.  In SpecPair: whenever the two  *)
(* calls have taken the same number of steps they are at the same place    *)
(* with equal working grids, traces, frames and results.                   *)
(***************************************************************************)
C7_Deterministic ==
    (DOMAIN pc = PairCalls /\ steps[1] = steps[2]) =>
        /\ pc[1] = pc[2]
        /\ Board(1) = Board(2)
        /\ moves[1] = moves[2]
        /\ stack[1] = stack[2]
        /\ prop[1] = prop[2]
        /\ retval[1] = retval[2]
        /\ result[1].some = result[2].some
        /\ ResultGrid(1) = ResultGrid(2)

\* Both runs have ended after the same number of steps, having tried,
\* propagated and backed out.
C7_Witness ==
    /\ DOMAIN pc = PairCalls
    /\ Done(1) /\ Done(2)
    /\ steps[1] = steps[2]
    /\ HasEntry(1, "Backtrack") /\ HasEntry(2, "Backtrack")
    /\ moves[1] = moves[2]

(***************************************************************************)
(* C8.  Idempotence of the propagator: after propagate_singles has         *)
(* returned no empty cell has exactly one candidate, and a second          *)
(* immediate call changes no cell, appends no trace entry and returns      *)
(* False.                                                                  *)
(***************************************************************************)
NoForcedSingle(g) ==
    \A r \in Idx, c \in Idx : g[r][c] = 0 => Cardinality(candidates(g, r, c)) # 1

C8_PropagateIdempotent ==
    \A i \in DOMAIN pc :
        algo[i] = "P" =>
            /\ pc[i] \in {"second", "end", "done"} => NoForcedSingle(Board(i))
            /\ (pc[i] = "prop" /\ prop[i].ret = "end") =>
                  (Board(i) = first[i].grid /\ moves[i] = first[i].moves)
            /\ pc[i] \in {"end", "done"} =>
                  /\ Board(i) = first[i].grid
                  /\ moves[i] = first[i].moves
                  /\ retval[i] = FALSE

\* The second call has returned after a first call that took more than one
\* pass and filled cells.
C8_Witness ==
    \E i \in DOMAIN pc :
        /\ algo[i] = "P" /\ pc[i] = "end"
        /\ first[i].ret = TRUE
        /\ Len(first[i].moves) > 1
        /\ first[i].grid # G0

(***************************************************************************)
(* C9.  candidates(grid, r, c) is empty if and only if grid[r][c] # 0.     *)
(* As stated it fails for an empty cell whose row, column and box hold all *)
(* nine digits.                                                            *)
(***************************************************************************)
C9_EmptyIffFilled ==
    \A i \in DOMAIN pc : \A r \in Idx, c \in Idx :
        (candidates(Board(i), r, c) = {}) <=> (Board(i)[r][c] # 0)

\* The cells of the row, the column and the box of (r, c).
Units(r, c) ==
    {<<r, x>> : x \in Idx} \cup {<<x, c>> : x \in Idx}
    \cup {b \in Cells : BoxStart(b[1]) = BoxStart(r) /\ BoxStart(b[2]) = BoxStart(c)}

\* The digits found in the row, the column and the box of (r, c).
Seen(g, r, c) == {g[a[1]][a[2]] : a \in Units(r, c)}

(***************************************************************************)
(* C9 as amended.  candidates(grid, r, c) is empty if and only if          *)
(* grid[r][c] # 0 or the row, the column and the box of (r, c) together    *)
(* hold all of 1..9.                                                       *)
(***************************************************************************)
C9_EmptyIffFilledOrBlocked ==
    \A i \in DOMAIN pc : \A r \in Idx, c \in Idx :
        LET g == Board(i)
        IN  (candidates(g, r, c) = {}) <=> (g[r][c] # 0 \/ Digits \subseteq Seen(g, r, c))

\* A working grid with a filled cell and with an empty cell that has no
\* candidate.
C9_Witness ==
    \E i \in DOMAIN pc : \E r \in Idx, c \in Idx :
        /\ Started(i)
        /\ Board(i)[r][c] = 0
        /\ candidates(Board(i), r, c) = {}
        /\ \E q \in Idx : Board(i)[r][q] # 0 /\ candidates(Board(i), r, q) = {}

(***************************************************************************)
(* C10.  For every fully filled grid that satisfies is_complete_and_valid, *)
(* Strategy A and Strategy B return a grid equal to the input, cell for    *)
(* cell, and leave the trace empty.                                        *)
(***************************************************************************)
C10_FilledValidReturnedAsIs ==
    \A i \in DOMAIN pc :
        (Solver(i) /\ IsFull(G0) /\ is_complete_and_valid(G0)) =>
            /\ moves[i] = << >>
            /\ Done(i) => (result[i].some /\ ResultGrid(i) = G0)

\* A solver has returned on a filled valid grid.
C10_Witness ==
    \E i \in DOMAIN pc :
        /\ Solver(i) /\ Done(i)
        /\ IsFull(G0) /\ is_complete_and_valid(G0)
        /\ result[i].some

(***************************************************************************)
(* C11.  On the classic published puzzle, the first entry of EASY_PUZZLES,  *)
(* Strategy A and Strategy B both return a grid, not None, in which every  *)
(* row, column and 3x3 box is a permutation of 1..9 and cell (0,0) is 5.   *)
(***************************************************************************)
Classic == FromRows(EASY_PUZZLES[1])

C11_ClassicSolved ==
    \A i \in DOMAIN pc :
        (Solver(i) /\ Done(i) /\ G0 = Classic) =>
            /\ result[i].some
            /\ IsSolution(ResultGrid(i))
            /\ ResultGrid(i)[0][0] = 5

\* A solver has returned on the classic puzzle with a trace of its search.
C11_Witness ==
    \E i \in DOMAIN pc :
        /\ Solver(i) /\ Done(i) /\ G0 = Classic
        /\ result[i].some
        /\ Len(moves[i]) >= 51

(***************************************************************************)
(* C12.  On the all-zero grid, which has many completions, Strategy A and  *)
(* Strategy B each return a complete valid grid rather than None.          *)
(***************************************************************************)
C12_EmptyGridSolved ==
    \A i \in DOMAIN pc :
        (Solver(i) /\ Done(i) /\ G0 = EmptyGrid) =>
            (result[i].some /\ is_complete_and_valid(ResultGrid(i)))

\* Strategy B has returned a grid for the all-zero grid, having branched.
C12_Witness ==
    \E i \in DOMAIN pc :
        /\ algo[i] = "B" /\ Done(i) /\ G0 = EmptyGrid
        /\ result[i].some
        /\ HasEntry(i, "MRV choose")

(***************************************************************************)
(* C13.  is_valid_move(grid, r, c, v) returns True when v = 0, and for v   *)
(* in 1..9 returns True if and only if no cell other than (r, c) in row r, *)
(* column c or the box of (r, c) holds v.  In particular, when the same    *)
(* non-zero digit stands twice in one row, the call at either of the two   *)
(* cells with that digit returns False, and a cell is never in conflict    *)
(* with its own value.                                                     *)
(***************************************************************************)
\* Some cell other than (r, c) in the row, column or box of (r, c) holds v.
HeldByPeer(g, r, c, v) == \E a \in Units(r, c) \ {<<r, c>>} : g[a[1]][a[2]] = v

C13_ValidMoveIffNoPeerHolds ==
    \A i \in DOMAIN pc :
        (algo[i] = "V" /\ Done(i)) =>
            LET f == Top(stack[i])
                g == Board(i)
            IN  /\ f.v = 0 => retval[i]
                /\ f.v # 0 => (retval[i] <=> ~ HeldByPeer(g, f.r, f.c, f.v))
                /\ (f.v # 0 /\ g[f.r][f.c] = f.v
                       /\ \E x \in Idx \ {f.c} : g[f.r][x] = f.v) => ~ retval[i]
                /\ (g[f.r][f.c] = f.v /\ ~ HeldByPeer(g, f.r, f.c, f.v)) => retval[i]

\* is_valid_move has returned False at a cell for the digit the cell holds,
\* which stands a second time in its row.
C13_Witness ==
    \E i \in DOMAIN pc :
        /\ algo[i] = "V" /\ Done(i)
        /\ LET f == Top(stack[i])
               g == Board(i)
           IN  /\ f.v # 0 /\ g[f.r][f.c] = f.v
               /\ \E x \in Idx \ {f.c} : g[f.r][x] = f.v
               /\ ~ retval[i]

(***************************************************************************)
(* C14.  is_complete_and_valid(grid) returns True if and only if each of   *)
(* the 9 rows, 9 columns and 9 boxes, as a multiset, is exactly {1,...,9}; *)
(* equivalently, for grids with cells in 0..9, if and only if no cell is   *)
(* zero and is_valid_move(grid, r, c, grid[r][c]) holds for every cell.    *)
(***************************************************************************)
\* The units of a grid: its rows, its columns and its boxes, each as the set
\* of its nine cells.
AllUnits ==
    {{<<r, c>> : c \in Idx} : r \in Idx} \cup {{<<r, c>> : r \in Idx} : c \in Idx}
    \cup {{<<br + x, bc + y>> : x \in 0 .. 2, y \in 0 .. 2} : br \in {0, 3, 6}, bc \in {0, 3, 6}}

\* Every digit 1..9 stands in exactly one cell of unit u.
OnceEach(g, u) == \A d \in Digits : Cardinality({a \in u : g[a[1]][a[2]] = d}) = 1

C14_CompleteAndValidIffUnits ==
    \A i \in DOMAIN pc :
        (algo[i] = "F" /\ Done(i)) =>
            LET g == Board(i)
            IN  /\ retval[i] <=> \A u \in AllUnits : OnceEach(g, u)
                /\ retval[i] <=>
                      /\ IsFull(g)
                      /\ \A r \in Idx, c \in Idx : is_valid_move(g, r, c, g[r][c])

\* is_complete_and_valid has returned False on a filled grid whose rows and
\* columns all hold every digit.
C14_Witness ==
    \E i \in DOMAIN pc :
        /\ algo[i] = "F" /\ Done(i)
        /\ IsFull(Board(i))
        /\ \A x \in Idx : {Board(i)[x][c] : c \in Idx} = Digits
        /\ \A x \in Idx : {Board(i)[r][x] : r \in Idx} = Digits
        /\ ~ retval[i]

(***************************************************************************)
(* C15.  candidates agrees with is_valid_move: for every empty cell (r, c) *)
(* and every v in 1..9, v is in candidates(grid, r, c) if and only if      *)
(* is_valid_move(grid, r, c, v) is True.                                   *)
(***************************************************************************)
C15_CandidatesAgreeWithValidMove ==
    \A i \in DOMAIN pc :
        (algo[i] = "K" /\ Done(i)) =>
            LET f == Top(stack[i])
                g == Board(i)
            IN  g[f.r][f.c] = 0 =>
                    \A v \in Digits : (v \in f.cand) <=> is_valid_move(g, f.r, f.c, v)

\* candidates has returned some but not all digits for an empty cell.
C15_Witness ==
    \E i \in DOMAIN pc :
        /\ algo[i] = "K" /\ Done(i)
        /\ LET f == Top(stack[i])
           IN  /\ Board(i)[f.r][f.c] = 0
               /\ f.cand # {} /\ f.cand # Digits

(***************************************************************************)
(* C16.  Two solver calls on the same caller grid, Strategy A and Strategy *)
(* B, each with its own trace list, their steps interleaved in every       *)
(* possible way, share no mutable state: the caller grid stays as it was,  *)
(* the two working grids have no row object in common, the trace of each   *)
(* call is at every moment the beginning of the trace it produces when run *)
(* alone, and its result and final trace are those of the run alone.       *)
(***************************************************************************)
\* Filled with the 5s and 2s of the first four cleared cells exchanged.
FilledSwapped ==
    Typed(Typed(Typed(Typed(Filled, <<0, 2>>, 2), <<0, 3>>, 5), <<1, 2>>, 5), <<1, 3>>, 2)

\* What each solver returns and records when it is run alone on a grid of
\* PairInputs (the program's own output for that grid).
RunAlone ==
    {
     [algo |-> "A", grid |-> Cleared(Filled, 0), some |-> TRUE,
      result |-> Filled,
      moves |-> << >>],
     [algo |-> "B", grid |-> Cleared(Filled, 0), some |-> TRUE,
      result |-> Filled,
      moves |-> << >>],
     [algo |-> "A", grid |-> Cleared(Filled, 1), some |-> TRUE,
      result |-> Filled,
      moves |-> << <<"Try", 1, 3, 5>> >>],
     [algo |-> "B", grid |-> Cleared(Filled, 1), some |-> TRUE,
      result |-> Filled,
      moves |-> << <<"Singleton", 1, 3, 5>> >>],
     [algo |-> "A", grid |-> Cleared(Filled, 2), some |-> TRUE,
      result |-> Filled,
      moves |-> << <<"Try", 1, 3, 5>>, <<"Try", 1, 4, 2>> >>],
     [algo |-> "B", grid |-> Cleared(Filled, 2), some |-> TRUE,
      result |-> Filled,
      moves |-> << <<"Singleton", 1, 3, 5>>, <<"Singleton", 1, 4, 2>> >>],
     [algo |-> "A", grid |-> Cleared(Filled, 3), some |-> TRUE,
      result |-> Filled,
      moves |-> << <<"Try", 1, 3, 2>>, <<"Backtrack", 1, 3, 2>>, <<"Try", 1, 3, 5>>,
                   <<"Try", 1, 4, 2>>, <<"Try", 2, 3, 2>> >>],
     [algo |-> "B", grid |-> Cleared(Filled, 3), some |-> TRUE,
      result |-> Filled,
      moves |-> << <<"Singleton", 1, 4, 2>>, <<"Singleton", 2, 3, 2>>, <<"Singleton", 1, 3, 5>> >>],
     [algo |-> "A", grid |-> Cleared(Filled, 4), some |-> TRUE,
      result |-> FilledSwapped,
      moves |-> << <<"Try", 1, 3, 2>>, <<"Try", 1, 4, 5>>, <<"Try", 2, 3, 5>>,
                   <<"Try", 2, 4, 2>> >>],
     [algo |-> "B", grid |-> Cleared(Filled, 4), some |-> TRUE,
      result |-> FilledSwapped,
      moves |-> << <<"MRV choose", 1, 3, 2>>, <<"Singleton", 1, 4, 5>>, <<"Singleton", 2, 3, 5>>,
                   <<"Singleton", 2, 4, 2>> >>],
     [algo |-> "A", grid |-> Cleared(Filled, 5), some |-> TRUE,
      result |-> FilledSwapped,
      moves |-> << <<"Try", 1, 1, 4>>, <<"Try", 1, 3, 2>>, <<"Try", 1, 4, 5>>,
                   <<"Try", 2, 3, 5>>, <<"Try", 2, 4, 2>> >>],
     [algo |-> "B", grid |-> Cleared(Filled, 5), some |-> TRUE,
      result |-> FilledSwapped,
      moves |-> << <<"Singleton", 1, 1, 4>>, <<"MRV choose", 1, 3, 2>>, <<"Singleton", 1, 4, 5>>,
                   <<"Singleton", 2, 3, 5>>, <<"Singleton", 2, 4, 2>> >>],
     [algo |-> "A", grid |-> HardPartlyFilled, some |-> TRUE,
      result |-> FromRows(<< <<3,4,5,6,7,8,9,1,2>>,
                            <<2,6,7,1,3,9,4,5,8>>,
                            <<8,9,1,2,4,5,6,3,7>>,
                            <<1,2,3,5,8,6,7,4,9>>,
                            <<4,5,6,9,2,7,3,8,1>>,
                            <<7,8,9,3,1,4,2,6,5>>,
                            <<5,1,4,7,9,3,8,2,6>>,
                            <<6,7,8,4,5,2,1,9,3>>,
                            <<9,3,2,8,6,1,5,7,4>> >>),
      moves |-> << <<"Try", 1, 1, 3>>, <<"Try", 1, 2, 4>>, <<"Try", 1, 5, 7>>,
                   <<"Try", 1, 6, 8>>, <<"Try", 1, 7, 9>>, <<"Try", 2, 1, 2>>,
                   <<"Try", 2, 2, 6>>, <<"Try", 2, 3, 7>>, <<"Try", 2, 5, 3>>,
                   <<"Try", 2, 7, 4>>, <<"Try", 2, 8, 5>>, <<"Try", 2, 9, 8>>,
                   <<"Try", 3, 1, 8>>, <<"Try", 3, 2, 9>>, <<"Try", 3, 6, 5>>,
                   <<"Try", 3, 7, 6>>, <<"Try", 3, 8, 3>>, <<"Try", 3, 9, 7>>,
                   <<"Try", 4, 1, 1>>, <<"Try", 4, 2, 2>>, <<"Try", 4, 3, 3>>,
                   <<"Try", 4, 4, 5>>, <<"Try", 4, 5, 8>>, <<"Try", 4, 7, 7>>,
                   <<"Try", 4, 8, 4>>, <<"Try", 4, 9, 9>>, <<"Try", 5, 1, 4>>,
                   <<"Try", 5, 2, 5>>, <<"Try", 5, 3, 6>>, <<"Try", 5, 4, 9>>,
                   <<"Try", 5, 5, 2>>, <<"Try", 5, 8, 8>>, <<"Try", 6, 1, 7>>,
                   <<"Try", 6, 2, 8>>, <<"Try", 6, 3, 9>>, <<"Try", 6, 5, 1>>,
                   <<"Try", 6, 7, 2>>, <<"Try", 6, 9, 5>>, <<"Try", 7, 1, 5>>,
                   <<"Try", 7, 2, 1>>, <<"Try", 7, 3, 4>>, <<"Try", 7, 4, 7>>,
                   <<"Try", 7, 6, 3>>, <<"Try", 7, 7, 8>>, <<"Try", 7, 8, 2>>,
                   <<"Try", 7, 9, 6>>, <<"Try", 8, 1, 6>>, <<"Try", 8, 2, 3>>,
                   <<"Try", 8, 3, 8>>, <<"Try", 8, 7, 1>>, <<"Try", 8, 8, 7>>,
                   <<"Backtrack", 8, 8, 7>>, <<"Try", 8, 8, 9>>, <<"Backtrack", 8, 8, 9>>,
                   <<"Backtrack", 8, 7, 1>>, <<"Backtrack", 8, 3, 8>>, <<"Backtrack", 8, 2, 3>>,
                   <<"Try", 8, 2, 7>>, <<"Try", 8, 3, 8>>, <<"Try", 8, 7, 1>>,
                   <<"Try", 8, 8, 9>>, <<"Try", 8, 9, 3>>, <<"Try", 9, 2, 3>>,
                   <<"Try", 9, 4, 8>>, <<"Try", 9, 5, 6>>, <<"Try", 9, 7, 5>>,
                   <<"Try", 9, 8, 7>>, <<"Try", 9, 9, 4>> >>],
     [algo |-> "B", grid |-> HardPartlyFilled, some |-> FALSE,
      result |-> None,
      moves |-> << <<"MRV choose", 1, 6, 3>>, <<"Singleton", 7, 6, 8>>, <<"Singleton", 9, 4, 7>>,
                   <<"Singleton", 3, 6, 5>>, <<"Backtrack", 1, 6, 3>>, <<"MRV choose", 1, 6, 8>> >>]
    }

IsPrefix(s, t) == Len(s) <= Len(t) /\ s = SubSeq(t, 1, Len(s))

C16_NoSharedState ==
    /\ CallerGrid = G0
    /\ \A i \in DOMAIN pc, j \in DOMAIN pc :
          (i # j /\ Started(i) /\ Started(j)) =>
              \A r \in Idx, q \in Idx : board[i][r] # board[j][q]
    /\ \A i \in DOMAIN pc :
          \E s \in RunAlone :
              /\ s.algo = algo[i] /\ s.grid = G0
              /\ IsPrefix(moves[i], s.moves)
              /\ Done(i) =>
                    /\ moves[i] = s.moves
                    /\ result[i].some = s.some
                    /\ s.some => ResultGrid(i) = s.result

\* Both calls have returned on the same grid, each after backing out of a
\* branch, Strategy A with a grid and Strategy B with None.
C16_Witness ==
    /\ DOMAIN pc = PairCalls
    /\ Done(1) /\ Done(2)
    /\ algo[1] # algo[2]
    /\ HasEntry(1, "Backtrack") /\ HasEntry(2, "Backtrack")
    /\ result[1].some # result[2].some

(***************************************************************************)
(* C17.  In Strategy B the legality re-check never fails: every value for  *)
(* which an "MRV choose" entry is recorded passes is_valid_move on the     *)
(* working grid and is placed, so whenever the last trace entry is "MRV    *)
(* choose r c v" the cell (r, c) of the working grid holds v.  The code    *)
(* skips candidates after a failed branch was backed out, because the      *)
(* cells propagation filled on that branch are still filled (see C18).     *)
(***************************************************************************)
LastEntry(i) == moves[i][Len(moves[i])]

C17_NoCandidateSkipped ==
    \A i \in DOMAIN pc :
        (algo[i] = "B" /\ moves[i] # << >> /\ LastEntry(i)[1] = "MRV choose") =>
            Board(i)[LastEntry(i)[2] - 1][LastEntry(i)[3] - 1] = LastEntry(i)[4]

(***************************************************************************)
(* C18.  Undo in Strategy B: when the recursive call for a candidate tried *)
(* at (r, c) has failed and the cell is reset to 0, the working grid is    *)
(* the grid as it was before the candidate was placed; in particular every *)
(* cell filled by propagation since that placement is empty again.  The    *)
(* code resets the one cell and leaves the propagated cells filled.        *)
(***************************************************************************)
\* The position in the trace of the "MRV choose" entry that the "Backtrack"
\* entry at the end of the trace backs out.
ChosenAt(i) ==
    LET e == LastEntry(i)
        S == {k \in 1 .. Len(moves[i]) : moves[i][k] = <<"MRV choose", e[2], e[3], e[4]>>}
    IN  CHOOSE k \in S : \A j \in S : j <= k

C18_BacktrackRestoresGrid ==
    \A i \in DOMAIN pc :
        (algo[i] = "B" /\ moves[i] # << >> /\ LastEntry(i)[1] = "Backtrack") =>
            \A k \in ChosenAt(i) .. Len(moves[i]) :
                moves[i][k][1] \in {"Singleton", "MRV choose"} =>
                    Board(i)[moves[i][k][2] - 1][moves[i][k][3] - 1] = 0

(***************************************************************************)
(* C19.  In Strategy B propagation precedes branching: every MRV selection *)
(* (every bt() entry) is made on a working grid in which no empty cell has *)
(* exactly one candidate, so the cell selected at every branching node has *)
(* at least two candidates.                                                *)
(***************************************************************************)
C19_PropagationPrecedesBranching ==
    \A i \in DOMAIN pc :
        algo[i] = "B" =>
            /\ pc[i] = "bt" => NoForcedSingle(Board(i))
            /\ \A k \in 1 .. Len(stack[i]) : Cardinality(stack[i][k].cand) >= 2

\* Strategy B has selected a cell at a node below the root, after propagation
\* filled cells.
C19_Witness ==
    \E i \in DOMAIN pc :
        /\ algo[i] = "B" /\ pc[i] = "loop"
        /\ Len(stack[i]) >= 2
        /\ Top(stack[i]).v = 0
        /\ HasEntry(i, "Singleton")

(***************************************************************************)
(* C20.  MRV selection.  On a working grid with at least one empty cell in *)
(* which every empty cell has a candidate, select_mrv_cell returns the     *)
(* empty cell with the fewest candidates, among those the first in         *)
(* row-major order, together with exactly candidates(grid, r, c); bt()     *)
(* then tries the candidates in ascending order, none left out.            *)
(***************************************************************************)
EmptyCells(g) == {k \in 0 .. (N * N - 1) : g[RowOf(k)][ColOf(k)] = 0}

\* How many candidates the cell at row-major position k has.
Choices(g, k) == Cardinality(candidates(g, RowOf(k), ColOf(k)))

\* m = <<r, c, cand>> is the cell the claim describes.
IsMrvOf(g, m) ==
    /\ ~ IsNone(m)
    /\ g[m[1]][m[2]] = 0
    /\ m[3] = candidates(g, m[1], m[2])
    /\ \A k \in EmptyCells(g) :
          \/ Cardinality(m[3]) < Choices(g, k)
          \/ Cardinality(m[3]) = Choices(g, k) /\ N * m[1] + m[2] <= k

\* Entry k of the trace records a candidate of the cell of frame f.
ChoiceOf(i, k, f) ==
    /\ k \in 1 .. Len(moves[i])
    /\ moves[i][k][1] = "MRV choose"
    /\ moves[i][k][2] = f.r + 1 /\ moves[i][k][3] = f.c + 1

\* Entry k of the trace is about the cell of frame f (a candidate tried or
\* backed out).
AboutCellOf(i, k, f) ==
    /\ k \in 1 .. Len(moves[i])
    /\ moves[i][k][1] \in {"MRV choose", "Backtrack"}
    /\ moves[i][k][2] = f.r + 1 /\ moves[i][k][3] = f.c + 1

C20_MrvSelection ==
    \A i \in DOMAIN pc :
        algo[i] = "B" =>
            \* the selection, where bt() makes it
            /\ pc[i] = "bt" =>
                  LET g == Board(i)
                  IN  (EmptyCells(g) # {} /\ \A k \in EmptyCells(g) : Choices(g, k) > 0) =>
                          IsMrvOf(g, select_mrv_cell(g))
            \* the node just opened holds what the selection returned
            /\ (pc[i] = "loop" /\ Top(stack[i]).v = 0) =>
                  LET f == Top(stack[i])
                  IN  IsMrvOf(Board(i), <<f.r, f.c, f.cand>>)
            \* the candidate just recorded: the least of the set if it is the
            \* first of its node, else the next after the one before it
            /\ (stack[i] # << >> /\ ChoiceOf(i, Len(moves[i]), Top(stack[i]))) =>
                  LET f == Top(stack[i])
                      n == Len(moves[i])
                      v == moves[i][n][4]
                  IN  /\ v \in f.cand
                      /\ IF AboutCellOf(i, n - 1, f)
                         THEN /\ moves[i][n - 1][4] < v
                              /\ \A x \in f.cand : ~ (moves[i][n - 1][4] < x /\ x < v)
                         ELSE \A x \in f.cand : v <= x

\* A node has been opened on a cell that is neither the first empty cell nor
\* the only one with the fewest candidates, and a second candidate of a node
\* has been tried.
C20_Witness ==
    \E i \in DOMAIN pc :
        /\ algo[i] = "B" /\ pc[i] = "loop" /\ Top(stack[i]).v = 0
        /\ LET f == Top(stack[i])
               g == Board(i)
               p == N * f.r + f.c
           IN  /\ \E k \in EmptyCells(g) : k < p /\ Choices(g, k) > Cardinality(f.cand)
               /\ \E k \in EmptyCells(g) : k > p /\ Choices(g, k) = Cardinality(f.cand)
        /\ \E k \in 2 .. Len(moves[i]) :
              /\ moves[i][k][1] = "MRV choose"
              /\ moves[i][k - 1][1] = "Backtrack"
              /\ moves[i][k - 1][2] = moves[i][k][2] /\ moves[i][k - 1][3] = moves[i][k][3]

(***************************************************************************)
(* C21.  Dead end versus solved in Strategy B.  Whenever a node of the     *)
(* search reports its result, it reports success if and only if the        *)
(* working grid has no empty cell.  A node entered on a grid in which some *)
(* empty cell has no candidate reports failure at once: it places no       *)
(* value, appends no trace entry and opens no loop, although               *)
(* select_mrv_cell returns None there as it does on a solved grid.         *)
(***************************************************************************)
\* Some empty cell of g has no candidate.
DeadEnd(g) == \E r \in Idx, c \in Idx : g[r][c] = 0 /\ candidates(g, r, c) = {}

\* Call i of Strategy B is at the entry of bt() on a dead end.
AtDeadEnd(i) == i \in DOMAIN pc /\ algo[i] = "B" /\ pc[i] = "bt" /\ DeadEnd(Board(i))

C21_DeadEndIsNotSolved ==
    /\ [](\A i \in DOMAIN pc :
            (algo[i] = "B" /\ pc[i] = "ret") => (retval[i] <=> IsFull(Board(i))))
    /\ [][\A i \in PairCalls :
            (AtDeadEnd(i) /\ pc'[i] # pc[i]) =>
                /\ pc'[i] = "ret" /\ retval'[i] = FALSE
                /\ heap' = heap /\ moves' = moves /\ stack' = stack]_vars

\* A node below the root has reported failure on a grid with an empty cell
\* that has no candidate, for which select_mrv_cell returns None.
C21_Witness ==
    \E i \in DOMAIN pc :
        /\ algo[i] = "B" /\ pc[i] = "ret" /\ ~ retval[i]
        /\ stack[i] # << >>
        /\ DeadEnd(Board(i))
        /\ IsNone(select_mrv_cell(Board(i)))
        /\ LastEntry(i)[1] # "Backtrack"

(***************************************************************************)
(* C22.  propagate_singles only ever turns an empty cell into the value    *)
(* that was its sole candidate in the grid at the moment of the commit.    *)
(* It never changes or clears a non-empty cell, appends exactly one        *)
(* "Singleton" entry per cell it fills, with the 1-based coordinates and   *)
(* the value, and returns True if and only if it filled a cell.            *)
(***************************************************************************)
\* The cells in which grids g and h differ.
Changed(g, h) == {a \in Cells : g[a[1]][a[2]] # h[a[1]][a[2]]}

\* Each entry of trace m is the "Singleton" entry of a cell that was empty in
\* g and holds the entry's value in h; no two entries name the same cell.
SingletonsOf(m, g, h) ==
    /\ \A k \in 1 .. Len(m) :
          /\ m[k][1] = "Singleton"
          /\ g[m[k][2] - 1][m[k][3] - 1] = 0
          /\ h[m[k][2] - 1][m[k][3] - 1] = m[k][4]
    /\ \A k \in 1 .. Len(m), j \in 1 .. Len(m) :
          (m[k][2] = m[j][2] /\ m[k][3] = m[j][3]) => k = j

C22_PropagateOnlyFillsSingles ==
    /\ [](\A i \in DOMAIN pc :
            algo[i] = "P" =>
                /\ SingletonsOf(moves[i], G0, Board(i))
                /\ Len(moves[i]) = Cardinality(Changed(G0, Board(i)))
                /\ pc[i] = "second" => (retval[i] <=> Changed(G0, Board(i)) # {})
                /\ pc[i] = "end" => (retval[i] <=> Changed(first[i].grid, Board(i)) # {}))
    /\ [][\A i \in PairCalls :
            (i \in DOMAIN pc /\ algo[i] = "P" /\ heap' # heap) =>
                \E r \in Idx, c \in Idx :
                    LET g == Board(i)
                        h == Deref(heap', board[i])
                    IN  /\ Changed(g, h) = {<<r, c>>}
                        /\ g[r][c] = 0
                        /\ candidates(g, r, c) = {h[r][c]}
                        /\ moves'[i] = Append(moves[i], <<"Singleton", r + 1, c + 1, h[r][c]>>)]_vars

\* The first call has returned True after filling three cells or more, on a
\* grid that still has empty cells.
C22_Witness ==
    \E i \in DOMAIN pc :
        /\ algo[i] = "P" /\ pc[i] = "second"
        /\ retval[i]
        /\ Len(moves[i]) >= 3
        /\ ~ IsFull(Board(i))

(***************************************************************************)
(* C23.  Termination: on every input grid with cells in 0..9 each of       *)
(* propagate_singles, solve_bruteforce and solve_backtracking_propagation  *)
(* eventually returns: the recursion unwinds completely (no frame is left) *)
(* and a result, a grid or None, is produced.                              *)
(***************************************************************************)
HasReturned(i) == Done(i) /\ stack[i] = << >>

C23_Terminates == <>(\A i \in DOMAIN pc : HasReturned(i))

\* A solver has returned None with no frame left after a long search that
\* backed out of every branch.
C23_Witness ==
    \E i \in DOMAIN pc :
        /\ Solver(i) /\ HasReturned(i)
        /\ ~ result[i].some
        /\ Len(moves[i]) > 100
        /\ LastEntry(i)[1] = "Backtrack"

(***************************************************************************)
(* C24.  Conflict-freeness of the working grid: when the input grid has no *)
(* two equal non-zero values in a row, a column or a box, then in every    *)
(* state of Strategy A and of Strategy B (after every placement, every     *)
(* commit of propagate_singles and every reset) the working grid has none. *)
(***************************************************************************)
\* No digit stands in two cells of a row, a column or a box of g.
ConflictFree(g) ==
    \A u \in AllUnits : \A d \in Digits :
        Cardinality({a \in u : g[a[1]][a[2]] = d}) <= 1

C24_WorkingGridConflictFree ==
    \A i \in DOMAIN pc :
        Solver(i) => \A g \in {Board(i)} : ConflictFree(G0) => ConflictFree(g)

\* Strategy B, on a grid without conflict, has backed out of a candidate,
\* placed the next one and gone on to another cell.
C24_Witness ==
    \E i \in DOMAIN pc :
        /\ algo[i] = "B" /\ ConflictFree(G0)
        /\ \E k \in 1 .. Len(moves[i]) :
              /\ moves[i][k][1] = "Backtrack"
              /\ k + 2 <= Len(moves[i])
              /\ moves[i][k + 1][1] = "MRV choose"
              /\ moves[i][k + 2][1] \in {"MRV choose", "Singleton"}
              /\ Board(i)[moves[i][k + 1][2] - 1][moves[i][k + 1][3] - 1] = moves[i][k + 1][4]

(***************************************************************************)
(* C25.  The trace is a replay log: for either strategy, applying the      *)
(* trace entries in order to the input grid ("Try", "MRV choose" and       *)
(* "Singleton" set the named cell to the named value, "Backtrack" sets it  *)
(* to 0) yields the working grid at every prefix and the returned grid at  *)
(* the end, and every "Backtrack" entry names the cell and value of the    *)
(* most recent try/choose entry not yet backed out.  The code records an   *)
(* "MRV choose" entry before it tests the candidate, so a candidate that   *)
(* is skipped (see C17) is in the trace and not in the grid.               *)
(***************************************************************************)
\* The positions of the entries of trace m that name cell (r, c).
EntriesOf(m, r, c) == {k \in 1 .. Len(m) : m[k][2] = r + 1 /\ m[k][3] = c + 1}

\* The grid that applying the entries of m in order to g yields: a cell holds
\* what the last entry naming it sets, and the value of g when none names it.
Replay(g, m) ==
    [r \in Idx |-> [c \in Idx |->
        IF \A k \in 1 .. Len(m) : ~ (m[k][2] = r + 1 /\ m[k][3] = c + 1)
        THEN g[r][c]
        ELSE LET e == m[Least({0 - k : k \in EntriesOf(m, r, c)}) * (0 - 1)]
             IN  IF e[1] = "Backtrack" THEN 0 ELSE e[4]]]

\* Entry j of m is a try/choose entry that no entry before entry k backs out.
OpenAt(m, j, k) ==
    /\ m[j][1] \in {"Try", "MRV choose"}
    /\ \A b \in (j + 1) .. (k - 1) : m[b] # <<"Backtrack", m[j][2], m[j][3], m[j][4]>>

\* The last entry of m, a "Backtrack", names the cell and the value of the
\* most recent try/choose entry not yet backed out.
BacksOutLatest(m) ==
    \E j \in 1 .. (Len(m) - 1) :
        /\ OpenAt(m, j, Len(m))
        /\ \A x \in (j + 1) .. (Len(m) - 1) : ~ OpenAt(m, x, Len(m))
        /\ <<m[j][2], m[j][3], m[j][4]>> = <<m[Len(m)][2], m[Len(m)][3], m[Len(m)][4]>>

C25_TraceReplaysGrid ==
    \A i \in DOMAIN pc :
        (Solver(i) /\ Started(i)) =>
            /\ Replay(G0, moves[i]) = Board(i)
            /\ (Done(i) /\ result[i].some) => Replay(G0, moves[i]) = ResultGrid(i)
            /\ (moves[i] # << >> /\ LastEntry(i)[1] = "Backtrack") => BacksOutLatest(moves[i])

\* The claim for Strategy A alone.
C25_TraceReplaysGridA ==
    \A i \in DOMAIN pc :
        (algo[i] = "A" /\ Started(i)) =>
            /\ Replay(G0, moves[i]) = Board(i)
            /\ (Done(i) /\ result[i].some) => Replay(G0, moves[i]) = ResultGrid(i)
            /\ (moves[i] # << >> /\ LastEntry(i)[1] = "Backtrack") => BacksOutLatest(moves[i])

(***************************************************************************)
(* C26.  For every input grid without conflicting givens that has at least *)
(* one completion, Strategy A returns the completion that is least in      *)
(* lexicographic order when the originally empty cells are read in         *)
(* row-major order.                                                        *)
(***************************************************************************)
\* Every completion of g, found cell by cell: the first empty cell takes each
\* digit that its row, column and box do not hold.
RECURSIVE Sols(_)
Sols(g) ==
    IF EmptyCells(g) = {} THEN IF IsSolution(g) THEN {g} ELSE {}
    ELSE UNION {UNION {Sols([g EXCEPT ![RowOf(k)][ColOf(k)] = v]) :
                         v \in Digits \ Seen(g, RowOf(k), ColOf(k))} :
                  k \in {Least(EmptyCells(g))}}

\* The completions of g the claim is checked against: all of them when g has
\* at most MaxEnum empty cells, those of Completions otherwise.
CompletionsOf(g) ==
    IF Cardinality(EmptyCells(g)) <= MaxEnum THEN Sols(g)
    ELSE {s \in Completions : IsSolution(s) /\ Agrees(g, s)}

\* a comes before b, or is b, when the cells that are empty in g are read in
\* row-major order.
LexLeq(g, a, b) ==
    \/ \A k \in EmptyCells(g) : a[RowOf(k)][ColOf(k)] = b[RowOf(k)][ColOf(k)]
    \/ \E k \in {Least({x \in EmptyCells(g) : a[RowOf(x)][ColOf(x)] # b[RowOf(x)][ColOf(x)]} \cup {N * N})} :
          k < N * N /\ a[RowOf(k)][ColOf(k)] < b[RowOf(k)][ColOf(k)]

C26_BruteforceReturnsLeast ==
    \A i \in DOMAIN pc :
        (algo[i] = "A" /\ Done(i) /\ ConflictFree(G0)) =>
            \A S \in {CompletionsOf(G0)} :
                S # {} =>
                    /\ result[i].some
                    /\ IsSolution(ResultGrid(i)) /\ Agrees(G0, ResultGrid(i))
                    /\ \A s \in S : LexLeq(G0, ResultGrid(i), s)

\* Strategy A has returned, for a grid with more than one completion, one
\* that is not the last of them.
C26_Witness ==
    \E i \in DOMAIN pc :
        /\ algo[i] = "A" /\ Done(i) /\ ConflictFree(G0) /\ result[i].some
        /\ \E s \in CompletionsOf(G0) :
              s # ResultGrid(i) /\ LexLeq(G0, ResultGrid(i), s)

=============================================================================
